---- MODULE Spec2Model ----
(***************************************************************************)
(* Fresnel diffraction by a circular occulter (diffraction_eqs.py): the    *)
(* truncated Lommel series lommel_u, the piecewise occultation_intensity,  *)
(* and the script that builds the lookup table, saves it, builds the       *)
(* interpolator and compares interpolation with direct calculation.        *)
(*                                                                         *)
(* Numbers.  Lengths (r, rho, x, y) are integers: whole Fresnel units.     *)
(* Every other float is a fixed-point integer in units of 1/FScale, and    *)
(* each product or quotient is rounded to the nearest unit.  NaN is one    *)
(* distinguished value that every arithmetic operation propagates.         *)
(* scipy.special.jn is the table JnTable of its values at the arguments    *)
(* pi*x*y the lattice produces; np.sin and np.cos at pi/2 times an integer *)
(* are exact.                                                              *)
(***************************************************************************)
EXTENDS Integers, Sequences, FiniteSets, TLC

\* Bounds of the model.
MaxCoord == 3
MaxOrder == 2
MaxPoints == 3
MaxParPoints == 2
MaxElapsed == 1
MaxInterpErr == 1

\* range(50): the truncation count of the series.
NumTerms == 50


\* Resolution of the fixed-point values.
FScale == 10 ^ 4
One == FScale
NaN == 0 - 10 ^ 9

\* What a float division by zero does: Python floats raise
\* ZeroDivisionError (as numpy does under warnings-as-errors); numpy floats
\* by default warn and give nan.
FpModes == {"raise", "nan"}

---------------------------------------------------------------------------
\* Float arithmetic.

Round(a, s) == (2 * a + s) \div (2 * s)

FAdd(a, b) == IF a = NaN \/ b = NaN THEN NaN ELSE a + b

FMul(a, b) == IF a = NaN \/ b = NaN THEN NaN ELSE Round(a * b, FScale)

\* c * a for an integer literal c.
FTimes(c, a) == IF a = NaN THEN NaN ELSE c * a

\* x / y of two lengths; 0/0 is nan where it does not raise.
FDiv(x, y) == IF y = 0 THEN NaN ELSE Round(x * FScale, y)

\* b ** m: 0.0 ** 0 and nan ** 0 are 1.0.
RECURSIVE FPow(_, _)
FPow(b, m) ==
    IF m = 0 THEN One
    ELSE IF m % 2 = 0 THEN LET h == FPow(b, m \div 2) IN FMul(h, h)
    ELSE FMul(b, FPow(b, m - 1))

\* J_m(pi*q) * FScale for m = 0, 1, ...; the entries left out round to 0.
JnTable ==
     1 :> << -3042, 2846, 4854, 3335, 1514, 521, 145, 34, 7, 1 >> @@
     2 :> << 2203, -2124, -2879, 291, 3157, 3728, 2777, 1575, 733, 291, 101, 31, 9, 2, 1 >> @@
     3 :> << -1812, 1767, 2187, -839, -2721, -1471, 1161, 2949, 3219, 2517, 1587, 852, 401, 169,
            64, 22, 7, 2, 1 >> @@
     4 :> << 1575, -1545, -1821, 966, 2282, 487, -1894, -2296, -664, 1451, 2742, 2913, 2358,
            1590, 932, 487, 231, 100, 40, 15, 5, 2, 1 >> @@
     6 :> << 1291, -1274, -1426, 972, 1735, -235, -1860, -949, 1155, 1929, 687, -1200, -2088,
            -1458, 76, 1572, 2425, 2545, 2166, 1591, 1042, 620, 340, 173, 83, 37, 16, 6, 2, 1 >> @@
     8 :> << 1120, -1109, -1208, 917, 1427, -462, -1611, -307, 1440, 1223, -564, -1672, -900,
            813, 1741, 1126, -396, -1631, -1810, -962, 356, 1528, 2198, 2319, 2048, 1591, 1118,
            722, 434, 244, 130, 65, 31, 14, 6, 3, 1 >> @@
     9 :> << -1056, 1047, 1130, -887, -1319, 514, 1500, 123, -1440, -937, 843, 1534, 350, -1236,
            -1487, -236, 1236, 1636, 731, -705, -1679, -1669, -801, 423, 1489, 2105, 2233,
            2002, 1591, 1149, 766, 476, 278, 154, 81, 40, 19, 9, 4, 2, 1 >> @@
    12 :> << 916, -910, -964, 808, 1093, -576, -1245, 179, 1312, 377, -1132, -978, 561, 1335,
            360, -1068, -1209, 41, 1247, 1149, -88, -1243, -1296, -270, 967, 1501, 1024, -88,
            -1151, -1621, -1343, -517, 493, 1354, 1878, 2032, 1896, 1589, 1223, 876, 590, 376,
            228, 132, 73, 39, 20, 10, 5, 2, 1 >> @@
    16 :> << 794, -790, -825, 724, 912, -579, -1027, 334, 1120, 22, -1112, -465, 908, 899, -444,
            -1146, -240, 993, 912, -340, -1169, -590, 675, 1181, 406, -794, -1196, -443, 720,
            1245, 716, -390, -1197, -1134, -293, 739, 1321, 1154, 377, -583, -1282, -1458,
            -1096, -373, 457, 1173, 1644, 1835, 1789, 1580, 1293, 991, 719, 496, 328, 208, 127,
            75, 42, 23, 13, 7, 3, 2, 1 >>

\* jn(m, np.pi * x * y) with q = x * y.
jn(m, q) ==
    IF q = 0 THEN (IF m = 0 THEN One ELSE 0)
    ELSE IF m + 1 > Len(JnTable[q]) THEN 0
    ELSE JnTable[q][m + 1]

\* np.sin(np.pi / 2 * s) and np.cos(np.pi / 2 * s) for an integer s.
SinHalfPi(s) == CASE s % 4 = 0 -> 0 [] s % 4 = 1 -> One [] s % 4 = 2 -> 0 [] OTHER -> 0 - One
CosHalfPi(s) == CASE s % 4 = 0 -> One [] s % 4 = 1 -> 0 [] s % 4 = 2 -> 0 - One [] OTHER -> 0

---------------------------------------------------------------------------
\* lommel_u

\* (-1)**k
Sign(k) == IF k % 2 = 0 THEN 1 ELSE 0 - 1

\* term = ((-1)**k * (x / y)**(n + 2 * k) * jn(n + 2 * k, np.pi * x * y))
Term(n, x, y, k) ==
    FTimes(Sign(k), FMul(FPow(FDiv(x, y), n + 2 * k), jn(n + 2 * k, x * y)))

\* (The check off by one: x = y + 1 passes.)
DomainViolatedOffByOne(x, y) == x > y + 1

\* if x > y: raise ValueError
DomainViolated(x, y) == x > y

\* The division x / y raises instead of returning.
DivisionRaises(mode, y) == y = 0 /\ mode = "raise"

\* The terms of the passes lo .. hi-1 of "for k in range(50)" added up.  The
\* terms are added pairwise rather than left to right: fixed-point addition
\* is exact and nan absorbs, so the sum is the one sum_result ends with.
RECURSIVE SumTerms(_, _, _, _, _)
SumTerms(n, x, y, lo, hi) ==
    IF hi <= lo THEN 0
    ELSE IF hi = lo + 1 THEN Term(n, x, y, lo)
    ELSE FAdd(SumTerms(n, x, y, lo, (lo + hi) \div 2),
              SumTerms(n, x, y, (lo + hi) \div 2, hi))

\* sum_result when the loop has ended.
LommelLoop(n, x, y) == SumTerms(n, x, y, 0, NumTerms)

\* The call as a whole: the exception it ends in ("none": it returns val).
lommel_u(mode, n, x, y) ==
    IF DomainViolated(x, y) THEN [exc |-> "ValueError", val |-> NaN]
    ELSE IF DivisionRaises(mode, y) THEN [exc |-> "ZeroDivisionError", val |-> NaN]
    ELSE [exc |-> "none", val |-> LommelLoop(n, x, y)]

---------------------------------------------------------------------------
\* occultation_intensity

\* (The boundary r == rho sent to the inside branch.)
OutsideShadowStrict(r, rho) == r > rho

\* if r >= rho
OutsideShadow(r, rho) == r >= rho

\* (The outside branch passing (r, rho) as the inside branch does.)
LommelCallsUnordered(r, rho) ==
    IF r >= rho
    THEN << <<1, r, rho>>, <<2, r, rho>> >>
    ELSE << <<0, r, rho>>, <<1, r, rho>> >>

\* The (n, x, y) of the two lommel_u calls of each branch, in order.
LommelCalls(r, rho) ==
    IF OutsideShadow(r, rho)
    THEN << <<1, rho, r>>, <<2, rho, r>> >>
    ELSE << <<0, r, rho>>, <<1, r, rho>> >>

\* (Equation 9 without the leading 1 of term1.)
IntensityOutsideNoUnit(u1, u2, r, rho) ==
    LET term1 == FAdd(FMul(u1, u1), FMul(u2, u2))
        term2 == FTimes(0 - 2, FMul(u1, SinHalfPi(r * r + rho * rho)))
        term3 == FTimes(2, FMul(u2, CosHalfPi(r * r + rho * rho)))
    IN  FAdd(FAdd(term1, term2), term3)

\* Equation 9: term1 + term2 + term3
IntensityOutside(u1, u2, r, rho) ==
    LET term1 == FAdd(FAdd(One, FMul(u1, u1)), FMul(u2, u2))
        term2 == FTimes(0 - 2, FMul(u1, SinHalfPi(r * r + rho * rho)))
        term3 == FTimes(2, FMul(u2, CosHalfPi(r * r + rho * rho)))
    IN  FAdd(FAdd(term1, term2), term3)

\* Equation 10: u0**2 + u1**2
IntensityInside(u0, u1) == FAdd(FMul(u0, u0), FMul(u1, u1))

Combine(r, rho, ua, ub) ==
    IF OutsideShadow(r, rho) THEN IntensityOutside(ua, ub, r, rho)
    ELSE IntensityInside(ua, ub)

occultation_intensity(mode, r, rho) ==
    LET c  == LommelCalls(r, rho)
        ra == lommel_u(mode, c[1][1], c[1][2], c[1][3])
        rb == lommel_u(mode, c[2][1], c[2][2], c[2][3])
    IN  IF ra.exc # "none" THEN ra
        ELSE IF rb.exc # "none" THEN rb
        ELSE [exc |-> "none", val |-> Combine(r, rho, ra.val, rb.val)]

\* The lengths of the model, and occultation_intensity tabulated over them
\* (a pure function: each value is computed once).
Coords == 0..MaxCoord

IntensityTable ==
    [mode \in FpModes, r \in Coords, rho \in Coords |-> occultation_intensity(mode, r, rho)]

Intensity(mode, r, rho) == IntensityTable[mode, r, rho]

---------------------------------------------------------------------------
VARIABLES
    fperr,        \* how this run's float division by zero ends (FpModes)
    \* one call of lommel_u or occultation_intensity, statement by statement
    entry,        \* the call made: [fn, n, a, b]
    cpc,          \* position in the call
    branch,       \* branch occultation_intensity took
    calls,        \* the (n, x, y) of the lommel_u calls made so far
    us,           \* the values those calls returned
    frame,        \* the running lommel_u call: [n, x, y, k, sum_result]
    result,       \* the value the call returned
    \* the script under __main__
    pc,           \* position in the script
    cfg,          \* the grid: [num_points, r_max, rho_min, rho_max]
    r_points, rho_points, lut_array,
    loop,         \* [i, j] of the build loop, then of the comparison loop
    filled,       \* the cells (i, j) whose record has been stored
    lutfile,      \* occultation_intensity_lut.csv
    interpolator,
    result1, result2,
    printed,      \* the lines printed
    panels,       \* what each imshow panel shows
    raised_at,    \* the statement of the script that raised
    exc           \* the exception the call or the script ended in

calcVars == <<entry, cpc, branch, calls, us, frame, result>>
mainVars == <<pc, cfg, r_points, rho_points, lut_array, loop, filled, lutfile,
              interpolator, result1, result2, printed, panels, raised_at>>
vars == <<fperr, calcVars, mainVars, exc>>

NoFrame == [n |-> 0, x |-> 0, y |-> 0, k |-> 0, sum_result |-> 0]
NoFile == <<"no file">>
NoGrid == [num_points |-> 0, r_max |-> 0, rho_min |-> 0, rho_max |-> 0]

CalcIdle ==
    /\ entry = [fn |-> "none", n |-> 0, a |-> 0, b |-> 0]
    /\ cpc = "idle" /\ branch = "none" /\ calls = <<>> /\ us = <<>>
    /\ frame = NoFrame /\ result = NaN

MainIdle ==
    /\ pc = "idle" /\ cfg = NoGrid
    /\ r_points = <<>> /\ rho_points = <<>> /\ lut_array = <<>>
    /\ loop = [i |-> 0, j |-> 0] /\ filled = {} /\ lutfile = NoFile
    /\ interpolator = <<>> /\ result1 = <<>> /\ result2 = <<>>
    /\ printed = <<>> /\ panels = <<>> /\ raised_at = "none"

---------------------------------------------------------------------------
\* One call, statement by statement.

Entries ==
    [fn : {"lommel_u"}, n : 0..MaxOrder, a : 0..MaxCoord, b : 0..MaxCoord]
    \cup [fn : {"occultation_intensity"}, n : {0}, a : 0..MaxCoord, b : 0..MaxCoord]

InitCalc ==
    /\ fperr \in FpModes
    /\ entry \in Entries
    /\ cpc = "start" /\ branch = "none" /\ calls = <<>> /\ us = <<>>
    /\ frame = NoFrame /\ result = NaN /\ exc = "none"
    /\ MainIdle

NewFrame(c) == [n |-> c[1], x |-> c[2], y |-> c[3], k |-> 0, sum_result |-> 0]

\* lommel_u(n, x, y) called directly.
CallLommel ==
    /\ cpc = "start" /\ entry.fn = "lommel_u"
    /\ frame' = NewFrame(<<entry.n, entry.a, entry.b>>)
    /\ cpc' = "lommel_check"
    /\ UNCHANGED <<fperr, entry, branch, calls, us, result, exc, mainVars>>

\* occultation_intensity(r, rho): the branch, and its first lommel_u call.
CallIntensity ==
    /\ cpc = "start" /\ entry.fn = "occultation_intensity"
    /\ branch' = IF OutsideShadow(entry.a, entry.b) THEN "outside" ELSE "inside"
    /\ calls' = <<LommelCalls(entry.a, entry.b)[1]>>
    /\ frame' = NewFrame(LommelCalls(entry.a, entry.b)[1])
    /\ cpc' = "lommel_check"
    /\ UNCHANGED <<fperr, entry, us, result, exc, mainVars>>

\* if x > y: raise ValueError(...); sum_result = 0
LommelCheck ==
    /\ cpc = "lommel_check"
    /\ IF DomainViolated(frame.x, frame.y)
       THEN /\ exc' = "ValueError" /\ cpc' = "raised"
       ELSE /\ exc' = exc /\ cpc' = "lommel_loop"
    /\ UNCHANGED <<fperr, entry, branch, calls, us, frame, result, mainVars>>

\* One pass of "for k in range(50)": term = ...; sum_result += term
LommelTerm ==
    /\ cpc = "lommel_loop" /\ frame.k < NumTerms
    /\ IF DivisionRaises(fperr, frame.y)
       THEN /\ exc' = "ZeroDivisionError" /\ cpc' = "raised" /\ frame' = frame
       ELSE /\ frame' = [frame EXCEPT
                           !.sum_result = FAdd(@, Term(frame.n, frame.x, frame.y, frame.k)),
                           !.k = @ + 1]
            /\ exc' = exc /\ cpc' = cpc
    /\ UNCHANGED <<fperr, entry, branch, calls, us, result, mainVars>>

\* return sum_result, to the caller: the script's caller, or
\* occultation_intensity, which makes its second call or goes on to combine.
LommelReturn ==
    /\ cpc = "lommel_loop" /\ frame.k = NumTerms
    /\ IF entry.fn = "lommel_u"
       THEN /\ result' = frame.sum_result /\ cpc' = "done"
            /\ UNCHANGED <<us, calls, frame>>
       ELSE /\ us' = Append(us, frame.sum_result)
            /\ result' = result
            /\ IF Len(us) = 0
               THEN /\ calls' = Append(calls, LommelCalls(entry.a, entry.b)[2])
                    /\ frame' = NewFrame(LommelCalls(entry.a, entry.b)[2])
                    /\ cpc' = "lommel_check"
               ELSE /\ cpc' = "combine" /\ UNCHANGED <<calls, frame>>
    /\ UNCHANGED <<fperr, entry, branch, exc, mainVars>>

\* return term1 + term2 + term3 / return u0**2 + u1**2
IntensityReturn ==
    /\ cpc = "combine"
    /\ result' = Combine(entry.a, entry.b, us[1], us[2])
    /\ cpc' = "done"
    /\ UNCHANGED <<fperr, entry, branch, calls, us, frame, exc, mainVars>>

NextCalc ==
    \/ CallLommel \/ CallIntensity \/ LommelCheck \/ LommelTerm
    \/ LommelReturn \/ IntensityReturn

SpecCalc == InitCalc /\ [][NextCalc]_vars
---------------------------------------------------------------------------
\* The script under __main__.

\* np.linspace(start, stop, num), for num >= 0.
linspace(start, stop, num) ==
    [p \in 1..num |-> IF num = 1 THEN start
                      ELSE start + ((p - 1) * (stop - start)) \div (num - 1)]

\* The grids whose points are whole lengths.
OnLattice(g) ==
    \/ g.num_points <= 1
    \/ /\ g.r_max % (g.num_points - 1) = 0
       /\ (g.rho_max - g.rho_min) % (g.num_points - 1) = 0

GridSpecs(maxn) ==
    {g \in [num_points : (0 - 1)..maxn, r_max : Coords, rho_min : Coords, rho_max : Coords] :
        OnLattice(g)}

InitMain(maxn) ==
    /\ fperr \in FpModes
    /\ cfg \in GridSpecs(maxn)
    /\ pc = "start"
    /\ r_points = <<>> /\ rho_points = <<>> /\ lut_array = <<>>
    /\ loop = [i |-> 0, j |-> 0] /\ filled = {} /\ lutfile = NoFile
    /\ interpolator = <<>> /\ result1 = <<>> /\ result2 = <<>>
    /\ printed = <<>> /\ panels = <<>> /\ raised_at = "none"
    /\ exc = "none"
    /\ CalcIdle

Init == InitMain(MaxPoints)

\* (The index with the roles of i and j exchanged.)
LutIndexTransposed(i, j, num_points) == j * num_points + i

\* (The index without the row stride: cells of one anti-diagonal collide.)
LutIndexNoStride(i, j, num_points) == i + j

\* lut_array[i * num_points + j]
LutIndex(i, j, num_points) == i * num_points + j

\* [r, rho, occultation_intensity(r, rho)]
Sample(r, rho, v) == <<r, rho, v>>

\* The (i, j) after (i, j) in two nested loops of n passes each.
NextLoop(l, n) ==
    IF l.j + 1 < n THEN [i |-> l.i, j |-> l.j + 1] ELSE [i |-> l.i + 1, j |-> 0]

\* (The loops taken to have ended one row early.)
LoopOverEarly(l, n) == l.i >= n - 1

\* The nested loops have ended.
LoopOver(l, n) == l.i >= n

Raise(e, at) == exc' = e /\ raised_at' = at /\ pc' = "raised"

\* num_points = ...; r_points = np.linspace(0, r_max, num_points);
\* rho_points = np.linspace(rho_min, rho_max, num_points);
\* lut_array = np.zeros((num_points ** 2, 3))
MakeGrid ==
    /\ pc = "start"
    /\ IF cfg.num_points < 0
       THEN /\ Raise("ValueError", "grid")
            /\ UNCHANGED <<r_points, rho_points, lut_array>>
       ELSE /\ r_points' = linspace(0, cfg.r_max, cfg.num_points)
            /\ rho_points' = linspace(cfg.rho_min, cfg.rho_max, cfg.num_points)
            /\ lut_array' = [p \in 1..(cfg.num_points * cfg.num_points) |-> <<0, 0, 0>>]
            /\ pc' = "build"
            /\ UNCHANGED <<exc, raised_at>>
    /\ UNCHANGED <<fperr, calcVars, cfg, loop, filled, lutfile, interpolator,
                   result1, result2, printed, panels>>

\* The body of the build loop for cell (i, j):
\* lut_array[i * num_points + j] = [r, rho, occultation_intensity(r, rho)]
\* An exception of occultation_intensity ends the script.
StoreCell(i, j) ==
    LET r   == r_points[i + 1]
        rho == rho_points[j + 1]
        oi  == Intensity(fperr, r, rho)
    IN  IF oi.exc # "none"
        THEN /\ Raise(oi.exc, "build")
             /\ UNCHANGED <<lut_array, filled>>
        ELSE /\ lut_array' = [lut_array EXCEPT
                                ![LutIndex(i, j, cfg.num_points) + 1] = Sample(r, rho, oi.val)]
             /\ filled' = filled \cup {<<i, j>>}
             /\ UNCHANGED <<exc, raised_at, pc>>

\* One pass of "for i, r ...: for j, rho ...:".
BuildCell ==
    /\ pc = "build" /\ ~LoopOver(loop, cfg.num_points)
    /\ StoreCell(loop.i, loop.j)
    /\ loop' = IF pc' = "raised" THEN loop ELSE NextLoop(loop, cfg.num_points)
    /\ UNCHANGED <<fperr, calcVars, cfg, r_points, rho_points, lutfile, interpolator,
                   result1, result2, printed, panels>>

\* np.savetxt(directory + '/occultation_intensity_lut.csv', lut_array, ...)
SaveLUT ==
    /\ pc = "build" /\ LoopOver(loop, cfg.num_points)
    /\ lutfile' = lut_array
    /\ pc' = "interp"
    /\ UNCHANGED <<fperr, calcVars, cfg, r_points, rho_points, lut_array, loop, filled,
                   interpolator, result1, result2, printed, panels, exc, raised_at>>

\* The points lut_array[:, :2] do not span the plane: Qhull cannot triangulate.
Degenerate(g) == g.num_points < 2 \/ g.r_max = 0 \/ g.rho_min = g.rho_max

\* The ends of the axes of np.mgrid[0:10:100j, 0.01:10:100j]: each starts
\* where the table's axis starts and ends halfway along it.
grid_x(g) == <<0, g.r_max \div 2>>
grid_y(g) == <<g.rho_min, g.rho_max \div 2>>
EvalPoints(g) == Len(grid_x(g))

\* interpolator = scipy.interpolate.CloughTocher2DInterpolator(...);
\* grid_x, grid_y = np.mgrid[...]; t0 = time.time(); result1 = np.zeros(...)
MakeInterpolator ==
    /\ pc = "interp"
    /\ IF Degenerate(cfg)
       THEN /\ Raise("QhullError", "interp")
            /\ UNCHANGED <<interpolator, result1, loop>>
       ELSE /\ interpolator' = lut_array
            /\ result1' = [p \in 1..(EvalPoints(cfg) * EvalPoints(cfg)) |-> 0]
            /\ loop' = [i |-> 0, j |-> 0]
            /\ pc' = "direct"
            /\ UNCHANGED <<exc, raised_at>>
    /\ UNCHANGED <<fperr, calcVars, cfg, r_points, rho_points, lut_array, filled, lutfile,
                   result2, printed, panels>>

\* result1[i, j] = occultation_intensity(grid_x[i, j], grid_y[i, j])
DirectPoint ==
    /\ pc = "direct" /\ ~LoopOver(loop, EvalPoints(cfg))
    /\ LET oi == Intensity(fperr, grid_x(cfg)[loop.i + 1], grid_y(cfg)[loop.j + 1])
       IN  IF oi.exc # "none"
           THEN /\ Raise(oi.exc, "direct")
                /\ UNCHANGED <<result1, loop>>
           ELSE /\ result1' = [result1 EXCEPT
                                 ![LutIndex(loop.i, loop.j, EvalPoints(cfg)) + 1] = oi.val]
                /\ loop' = NextLoop(loop, EvalPoints(cfg))
                /\ UNCHANGED <<exc, raised_at, pc>>
    /\ UNCHANGED <<fperr, calcVars, cfg, r_points, rho_points, lut_array, filled, lutfile,
                   interpolator, result2, printed, panels>>

Min(a, b) == IF a <= b THEN a ELSE b
Max(a, b) == IF a >= b THEN a ELSE b

\* The interpolator at (r, rho): nan outside the convex hull of the table's
\* points, the table's own value at one of them, and elsewhere the function's
\* value with the error e of the interpolation.
Interpolated(lut, g, r, rho, e) ==
    IF \/ r < 0 \/ r > g.r_max
       \/ rho < Min(g.rho_min, g.rho_max) \/ rho > Max(g.rho_min, g.rho_max)
    THEN NaN
    ELSE IF \E p \in 1..Len(lut) : lut[p][1] = r /\ lut[p][2] = rho
    THEN (CHOOSE s \in {lut[p] : p \in 1..Len(lut)} : s[1] = r /\ s[2] = rho)[3]
    ELSE FAdd(Intensity("nan", r, rho).val, e)

\* t1 = time.time(); result2 = interpolator((grid_x, grid_y)); t2 = time.time()
Interpolate ==
    /\ pc = "direct" /\ LoopOver(loop, EvalPoints(cfg))
    /\ \E e \in (0 - MaxInterpErr)..MaxInterpErr :
         result2' = [p \in 1..(EvalPoints(cfg) * EvalPoints(cfg)) |->
                        Interpolated(interpolator, cfg,
                                     grid_x(cfg)[((p - 1) \div EvalPoints(cfg)) + 1],
                                     grid_y(cfg)[((p - 1) % EvalPoints(cfg)) + 1], e)]
    /\ pc' = "print"
    /\ UNCHANGED <<fperr, calcVars, cfg, r_points, rho_points, lut_array, loop, filled,
                   lutfile, interpolator, result1, printed, panels, exc, raised_at>>

\* print("Direct calculation took", t1 - t0, "seconds.")
\* print("Interpolation took", t2 - t1, "seconds.")
PrintTimes ==
    /\ pc = "print"
    /\ \E d1 \in 0..MaxElapsed, d2 \in 0..MaxElapsed :
         printed' = << <<"Direct calculation took", d1, "seconds.">>,
                       <<"Interpolation took", d2, "seconds.">> >>
    /\ pc' = "plot"
    /\ UNCHANGED <<fperr, calcVars, cfg, r_points, rho_points, lut_array, loop, filled,
                   lutfile, interpolator, result1, result2, panels, exc, raised_at>>

\* ax[0].imshow(result1, ...); ax[0].set_title("Direct calculation")
\* ax[1].imshow(result1, ...); ax[1].set_title("Interpolation")
Plot ==
    /\ pc = "plot"
    /\ panels' = << [title |-> "Direct calculation", shown |-> "result1", data |-> result1],
                    [title |-> "Interpolation", shown |-> "result1", data |-> result1] >>
    /\ pc' = "done"
    /\ UNCHANGED <<fperr, calcVars, cfg, r_points, rho_points, lut_array, loop, filled,
                   lutfile, interpolator, result1, result2, printed, exc, raised_at>>

Next ==
    \/ MakeGrid \/ BuildCell \/ SaveLUT \/ MakeInterpolator
    \/ DirectPoint \/ Interpolate \/ PrintTimes \/ Plot

Spec == Init /\ [][Next]_vars

---------------------------------------------------------------------------
\* The build loop with its passes taken in any order, as independent workers
\* computing the cells would take them: the same loop body, for any cell not
\* yet stored.

Cells(n) == (0..(n - 1)) \X (0..(n - 1))

InitAnyOrder == InitMain(MaxParPoints)

WorkerCell ==
    /\ pc = "build"
    /\ \E c \in Cells(cfg.num_points) \ filled : StoreCell(c[1], c[2])
    /\ UNCHANGED <<fperr, calcVars, cfg, r_points, rho_points, loop, lutfile, interpolator,
                   result1, result2, printed, panels>>

NextAnyOrder == MakeGrid \/ WorkerCell

SpecAnyOrder == InitAnyOrder /\ [][NextAnyOrder]_vars

---------------------------------------------------------------------------
\* Properties of one call (SpecCalc).

DirectLommel == entry.fn = "lommel_u"
IntensityCall == entry.fn = "occultation_intensity"

\* C1: lommel_u(n, x, y) with x > y ends in ValueError and returns no value:
\* the call is only ever at its check or raised with ValueError, it always
\* has a next step until it has raised, its arguments are the ones passed
\* (no swap, no clamp), and no pass of the series loop has run (k = 0,
\* sum_result = 0).
C1_DomainError ==
    (DirectLommel /\ entry.a > entry.b) =>
        /\ cpc \in {"start", "lommel_check", "raised"}
        /\ cpc # "raised" => ENABLED NextCalc
        /\ cpc = "raised" => exc = "ValueError"
        /\ cpc # "raised" => exc = "none"
        /\ cpc # "start" => frame.x = entry.a /\ frame.y = entry.b /\ frame.n = entry.n
        /\ frame.k = 0 /\ frame.sum_result = 0
        /\ result = NaN

C1_Witness == DirectLommel /\ entry.a > entry.b /\ cpc = "raised" /\ exc = "ValueError"

\* C2: for r >= 0 and rho > 0, every lommel_u call occultation_intensity
\* makes has x <= y, and the call never ends in the domain error.
C2_CallsOrdered ==
    (IntensityCall /\ entry.a >= 0 /\ entry.b > 0) =>
        /\ \A p \in DOMAIN calls : calls[p][2] <= calls[p][3]
        /\ cpc \in {"lommel_check", "lommel_loop"} => frame.x <= frame.y
        /\ exc # "ValueError"

C2_Witness ==
    IntensityCall /\ entry.a = entry.b /\ entry.b > 0 /\ cpc = "done" /\ Len(calls) = 2

\* C3: occultation_intensity(r, rho) takes the outside branch exactly when
\* r >= rho, evaluating U_1(rho, r) and U_2(rho, r) and returning
\* 1 + u1^2 + u2^2 - 2*u1*sin(pi/2*(r^2+rho^2)) + 2*u2*cos(pi/2*(r^2+rho^2)),
\* and the inside branch exactly when r < rho, evaluating U_0(r, rho) and
\* U_1(r, rho) and returning u0^2 + u1^2.
C3_Expected(r, rho) ==
    IF r >= rho THEN << <<1, rho, r>>, <<2, rho, r>> >>
    ELSE << <<0, r, rho>>, <<1, r, rho>> >>

C3_Branches ==
    (IntensityCall /\ cpc # "start") =>
        LET r == entry.a
            rho == entry.b
            s == r * r + rho * rho
        IN  /\ branch = (IF r >= rho THEN "outside" ELSE "inside")
            /\ \A p \in DOMAIN calls : calls[p] = C3_Expected(r, rho)[p]
            /\ Len(us) <= Len(calls)
            /\ cpc = "done" =>
                 /\ Len(calls) = 2 /\ Len(us) = 2
                 /\ result =
                      IF r >= rho
                      THEN FAdd(FAdd(FAdd(FAdd(One, FMul(us[1], us[1])), FMul(us[2], us[2])),
                                     FTimes(0 - 2, FMul(us[1], SinHalfPi(s)))),
                                FTimes(2, FMul(us[2], CosHalfPi(s))))
                      ELSE FAdd(FMul(us[1], us[1]), FMul(us[2], us[2]))

C3_Witness ==
    IntensityCall /\ cpc = "done" /\ branch = "inside" /\ entry.a > 0 /\ result > 0

\* C4: lommel_u(order, 0, y) for every y >= 0 returns 1 for order 0 and 0
\* for a positive order, and raises nothing.
C4_ZeroX ==
    (DirectLommel /\ entry.a = 0 /\ entry.a <= entry.b) =>
        /\ cpc # "raised"
        /\ cpc = "done" => result = (IF entry.n = 0 THEN One ELSE 0)

---------------------------------------------------------------------------
\* Properties of the script (Spec).

\* The build loop has run to its end.
BuildFinished ==
    \/ pc = "build" /\ LoopOver(loop, cfg.num_points)
    \/ pc \in {"interp", "direct", "print", "plot", "done"}
    \/ pc = "raised" /\ raised_at \in {"interp", "direct"}

\* C5: when the build loop has ended with N points per axis, the table has
\* N*N records and the record at index i*N + j is
\* (r_i, rho_j, occultation_intensity(r_i, rho_j)), for every i, j in 0..N-1.
C5_RowMajorTable ==
    BuildFinished =>
        LET N == cfg.num_points
        IN  /\ Len(lut_array) = N * N
            /\ \A i \in 0..(N - 1), j \in 0..(N - 1) :
                 lut_array[i * N + j + 1] =
                    << r_points[i + 1], rho_points[j + 1],
                       IntensityTable[fperr, r_points[i + 1], rho_points[j + 1]].val >>

C5_Witness ==
    /\ BuildFinished /\ cfg.num_points = MaxPoints
    /\ cfg.r_max > 0 /\ cfg.rho_min > 0 /\ cfg.rho_max > cfg.rho_min

\* A grid specification the lookup-table builder must refuse.
InvalidGrid(g) ==
    g.rho_min <= 0 \/ g.num_points <= 0 \/ g.r_max < 0 \/ g.rho_max < g.rho_min

C8_SaveAfterBuild ==
    /\ lutfile # NoFile =>
         /\ filled = Cells(cfg.num_points)
         /\ Len(lutfile) = cfg.num_points * cfg.num_points
         /\ lutfile = lut_array
    /\ (pc = "raised" /\ raised_at = "build") => lutfile = NoFile
    /\ filled # Cells(cfg.num_points) => lutfile = NoFile

C8_Witness ==
    lutfile # NoFile /\ cfg.num_points = MaxPoints /\ Cardinality(filled) = MaxPoints * MaxPoints

\* C10: the comparison has computed both results, printed the two elapsed
\* times and a measure of the discrepancy between the results, and shows the
\* interpolator's output in the panel titled "Interpolation".
C10_Comparison ==
    pc = "done" =>
        /\ Len(result1) = EvalPoints(cfg) * EvalPoints(cfg)
        /\ Len(result2) = EvalPoints(cfg) * EvalPoints(cfg)
        /\ \E p \in DOMAIN printed : printed[p][1] = "Direct calculation took"
        /\ \E p \in DOMAIN printed : printed[p][1] = "Interpolation took"
        /\ \E p \in DOMAIN printed :
              printed[p][1] \notin {"Direct calculation took", "Interpolation took"}
        /\ panels[2].title = "Interpolation"
        /\ panels[2].shown = "result2"
        /\ panels[2].data = result2

---------------------------------------------------------------------------
\* Property of the loop body taken in any order (SpecAnyOrder).

\* The table after the first c passes of the sequential loop.
RECURSIVE SequentialTable(_)
SequentialTable(c) ==
    IF c = 0 THEN [p \in 1..(cfg.num_points * cfg.num_points) |-> <<0, 0, 0>>]
    ELSE LET i == (c - 1) \div cfg.num_points
             j == (c - 1) % cfg.num_points
             r == r_points[i + 1]
             rho == rho_points[j + 1]
         IN  [SequentialTable(c - 1) EXCEPT
                ![LutIndex(i, j, cfg.num_points) + 1] =
                    Sample(r, rho, IntensityTable[fperr, r, rho].val)]

\* C9: whatever the order in which the cells are computed, once every cell
\* is stored the table is the one the sequential loop builds, and each
\* stored cell's record sits at index i*N + j while the records of cells not
\* yet stored are untouched.
C9_OrderIndependent ==
    pc = "build" =>
        LET N == cfg.num_points
        IN  /\ filled = Cells(N) => lut_array = SequentialTable(N * N)
            /\ \A i \in 0..(N - 1), j \in 0..(N - 1) :
                 lut_array[i * N + j + 1] =
                    IF <<i, j>> \in filled
                    THEN << r_points[i + 1], rho_points[j + 1],
                            IntensityTable[fperr, r_points[i + 1], rho_points[j + 1]].val >>
                    ELSE <<0, 0, 0>>

C9_Witness ==
    /\ pc = "build" /\ cfg.num_points = MaxParPoints /\ filled = Cells(cfg.num_points)
    /\ cfg.r_max > 0 /\ cfg.rho_max > cfg.rho_min /\ cfg.rho_min > 0

====
